---- MODULE Spec2Model ----
(***************************************************************************)
(* Model of src/public/src/KairuCommunityHub.jsx: a React view over a      *)
(* Firestore collection of posts.  Several browser clients (each one App   *)
(* instance) share one posts collection.  A client's handlers read the     *)
(* copy of a post that the last delivered snapshot put in its local state, *)
(* and send writes that the store commits or rejects later.                *)
(*                                                                         *)
(* The Firestore SDK is modelled by its contract as the code uses it:      *)
(* addDoc/updateDoc are asynchronous and either commit or reject, writes   *)
(* of one client commit in the order issued, serverTimestamp() resolves to *)
(* the commit time, and a listener registered by onSnapshot receives the   *)
(* current query result first and then one result per committed write, in  *)
(* commit order, until it is unsubscribed.                                 *)
(***************************************************************************)
EXTENDS Integers, Sequences, FiniteSets, TLC

\* ---------------------------------------------------------------- bounds
MaxPosts == 2       \* documents the posts collection can hold
MaxEvents == 5      \* user input events that change state, in one behaviour
MaxStored == 3      \* comments a post holds before the clients start
TicksPerSecond == 2 \* server times (commits) that fall within one second

\* ---------------------------------------------------------------- values
Null == "null"
NoVer == -1
Users == {"A", "B"}
Clients == {"c1", "c2"}
PostIds == 1..MaxPosts
Space == " "
RawTexts == {<<>>, <<" ">>, <<" ", "a", " ">>}
AuthUsers == {[isNull |-> TRUE, uid |-> ""]} \cup {[isNull |-> FALSE, uid |-> u] : u \in Users}

VARIABLES
    store,          \* posts collection: document id -> document data
    clock,          \* server time; also the number of committed writes
    phase,          \* per client: "init", "running", "failed", "crashed"
    db, userId, isAuthReady,            \* useFirebase state
    posts, allUserIds,                  \* usePosts state
    sub, queue,                         \* posts listener and its undelivered results
    content, isPosting,                 \* NewPost state
    commentText, isExpanded,            \* PostItem state, per client and post
    pending,                            \* per client: writes in flight, oldest first
    events,                             \* user input events so far
    likeParity,                         \* history: like writes per (post, user)
    appliedComments,                    \* history: comment intents committed
    rejectedComments,                   \* history: comment intents rejected
    lastVer                             \* history: per client, the last result delivered

vars == <<store, clock, phase, db, userId, isAuthReady, posts, allUserIds, sub, queue,
          content, isPosting, commentText, isExpanded, pending, events,
          likeParity, appliedComments, rejectedComments, lastVer>>

serverVars == <<store, clock>>
authVars == <<phase, db, userId, isAuthReady>>
feedVars == <<posts, allUserIds, sub, queue>>
formVars == <<content, isPosting, commentText, isExpanded>>
histVars == <<likeParity, appliedComments, rejectedComments, lastVer>>
writeHist == <<likeParity, appliedComments, rejectedComments>>

\* ------------------------------------------------------------ pure helpers
Includes(arr, x) == \E i \in 1..Len(arr) : arr[i] = x

IsSpace(ch) == ch = Space

RECURSIVE TrimStart(_)
TrimStart(s) == IF s # <<>> /\ IsSpace(Head(s)) THEN TrimStart(Tail(s)) ELSE s

RECURSIVE TrimEnd(_)
TrimEnd(s) ==
    IF s # <<>> /\ IsSpace(s[Len(s)]) THEN TrimEnd(SubSeq(s, 1, Len(s) - 1)) ELSE s

\* String.prototype.trim
Trim(s) == TrimEnd(TrimStart(s))

\* handleLike without the includes() test: always append
NewLikesAlwaysAppend(currentLikes, u) == Append(currentLikes, u)

\* newLikes of handleLike: remove the user if present, else append
NewLikes(currentLikes, u) ==
    IF Includes(currentLikes, u)
        THEN SelectSeq(currentLikes, LAMBDA id : id # u)
        ELSE Append(currentLikes, u)

\* arrayUnion(e) applied to a stored array: add e unless an equal element is there
ArrayUnion(arr, e) == IF Includes(arr, e) THEN arr ELSE Append(arr, e)

\* user?.uid || null
CurrentId(user) == IF user.isNull \/ user.uid = "" THEN Null ELSE user.uid

\* ------------------------------------------------------------ posts query
\* the query ordered by document id instead of timestamp
NewerById(st, i, j) == i > j

\* query(postsColRef, orderBy('timestamp', 'desc')): newest first; documents
\* with equal timestamps are ordered by id, descending.
Newer(st, i, j) ==
    \/ st[i].timestamp > st[j].timestamp
    \/ st[i].timestamp = st[j].timestamp /\ i > j

RECURSIVE OrderDesc(_, _)
OrderDesc(st, ids) ==
    IF ids = {} THEN <<>>
    ELSE LET top == CHOOSE i \in ids : \A j \in ids \ {i} : Newer(st, i, j)
         IN  <<top>> \o OrderDesc(st, ids \ {top})

QueryDocs(st) ==
    LET order == OrderDesc(st, DOMAIN st)
    IN  [k \in 1..Len(order) |-> [id |-> order[k], data |-> st[order[k]]]]

\* one result of the posts query, as the listener receives it
QuerySnapshot(st, time) == [ver |-> time, docs |-> QueryDocs(st)]

\* snapshot.docs.map(doc => ({ id: doc.id, ...doc.data() }))
FetchedPosts(snapshot) ==
    [k \in 1..Len(snapshot.docs) |->
        [id |-> snapshot.docs[k].id,
         userId |-> snapshot.docs[k].data.userId,
         content |-> snapshot.docs[k].data.content,
         timestamp |-> snapshot.docs[k].data.timestamp,
         likes |-> snapshot.docs[k].data.likes,
         comments |-> snapshot.docs[k].data.comments]]

AddUnique(ids, x) == IF x = Null \/ Includes(ids, x) THEN ids ELSE Append(ids, x)

RECURSIVE CommentIds(_, _)
CommentIds(ids, comments) ==
    IF comments = <<>> THEN ids
    ELSE CommentIds(AddUnique(ids, Head(comments).userId), Tail(comments))

\* the unique user ids of posts and comments, in first-seen order
RECURSIVE UniqueIds(_, _)
UniqueIds(ids, fetched) ==
    IF fetched = <<>> THEN ids
    ELSE UniqueIds(CommentIds(AddUnique(ids, Head(fetched).userId), Head(fetched).comments),
                   Tail(fetched))

\* ------------------------------------------------------------ client views
\* App renders the main view (NewPost and the PostItems) only in this state
Mounted(c) == phase[c] = "running" /\ isAuthReady[c]

HasPost(c, p) == \E k \in 1..Len(posts[c]) : posts[c][k].id = p

\* the post prop of PostItem p on client c
PostProp(c, p) == posts[c][CHOOSE k \in 1..Len(posts[c]) : posts[c][k].id = p]

\* ------------------------------------------------------------ PostItem render
\* timestamp.seconds of a stored server time
Seconds(t) == t \div TicksPerSecond

\* the comparator the wrong way round: newest first
CompareNewestFirst(a, b) == Seconds(b.timestamp) - Seconds(a.timestamp)

\* (a, b) => a.timestamp?.seconds - b.timestamp?.seconds
Compare(a, b) == Seconds(a.timestamp) - Seconds(b.timestamp)

\* where the stable sort puts arr[i]: behind the elements that compare
\* before it and the equal ones that stand before it in arr
Rank(arr, i) ==
    1 + Cardinality({j \in 1..Len(arr) :
            \/ Compare(arr[j], arr[i]) < 0
            \/ Compare(arr[j], arr[i]) = 0 /\ j < i})

\* Array.prototype.sort with Compare, on a copy (slice()); the sort is stable.
\* (a \in {arr} has the argument evaluated once.)
Sort(arr) ==
    CHOOSE sorted \in {[k \in 1..Len(a) |-> a[CHOOSE i \in 1..Len(a) : Rank(a, i) = k]] :
                         a \in {arr}} : TRUE

\* arr.slice(-k)
SliceLast(arr, k) ==
    CHOOSE last \in {SubSeq(a, (IF Len(a) - k < 0 THEN 0 ELSE Len(a) - k) + 1, Len(a)) :
                       a \in {arr}} : TRUE

DisplayedComments(c, p) == Sort(PostProp(c, p).comments)

VisibleComments(c, p) ==
    IF isExpanded[c][p] THEN DisplayedComments(c, p)
                        ELSE SliceLast(DisplayedComments(c, p), 2)

\* post.comments?.length > 0: the comments section is rendered
CommentsSection(c, p) == Len(PostProp(c, p).comments) > 0

\* the "View all n comments" button is rendered
ViewAllOffered(c, p) ==
    /\ CommentsSection(c, p)
    /\ ~isExpanded[c][p]
    /\ Len(DisplayedComments(c, p)) > Len(VisibleComments(c, p))

\* the "Show less" button is rendered
ShowLessOffered(c, p) == CommentsSection(c, p) /\ isExpanded[c][p]

\* ------------------------------------------------------------ usePosts effect
\* the usePosts effect testing only db before it subscribes
UsePostsEffectDbOnly(dbVal, userIdVal, readyVal) ==
    IF dbVal = Null
        THEN [sub |-> FALSE, queue |-> <<>>]
        ELSE [sub |-> TRUE, queue |-> <<QuerySnapshot(store, clock)>>]

\* the usePosts effect body for the given dependency values
UsePostsEffect(dbVal, userIdVal, readyVal) ==
    IF ~readyVal \/ dbVal = Null \/ userIdVal = Null
        THEN [sub |-> FALSE, queue |-> <<>>]
        ELSE [sub |-> TRUE, queue |-> <<QuerySnapshot(store, clock)>>]

\* ------------------------------------------------------------ writes
PostWrite(u, text) ==
    [kind |-> "post", post |-> 0, userId |-> u, likes |-> <<>>, text |-> text, pos |-> 0]

LikeWrite(p, u, newLikes) ==
    [kind |-> "like", post |-> p, userId |-> u, likes |-> newLikes, text |-> <<>>, pos |-> 0]

\* pos: where the comment would land in the issuing client's copy of the post
CommentWrite(p, u, text, pos) ==
    [kind |-> "comment", post |-> p, userId |-> u, likes |-> <<>>, text |-> text, pos |-> pos]

Intent(w) == [post |-> w.post, userId |-> w.userId, text |-> w.text, pos |-> w.pos]

\* addDoc payload with the author already in likes
NewDocLikedByAuthor(w, time) ==
    [userId |-> w.userId, content |-> w.text, timestamp |-> time,
     likes |-> <<w.userId>>, comments |-> <<>>]

NewDoc(w, time) ==
    [userId |-> w.userId, content |-> w.text, timestamp |-> time,
     likes |-> <<>>, comments |-> <<>>]

NewComment(w, time) == [userId |-> w.userId, text |-> w.text, timestamp |-> time]

\* The id addDoc gives a new document.  Ids are opaque keys, so one order of
\* handing them out stands for all: the highest unused one, which makes the
\* order of ids the reverse of the order of creation.
NewId(st) == CHOOSE i \in PostIds \ DOMAIN st : \A j \in PostIds \ DOMAIN st : j <= i

\* the store after write w commits at `time`; id is the id addDoc assigns
Applied(st, w, id, time) ==
    CASE w.kind = "post" -> (id :> NewDoc(w, time)) @@ st
      [] w.kind = "like" -> [st EXCEPT ![w.post].likes = w.likes]
      [] w.kind = "comment" ->
            [st EXCEPT ![w.post].comments = ArrayUnion(@, NewComment(w, time))]

\* ------------------------------------------------------------ initial state
Init ==
    /\ store = <<>>
    /\ clock = 0
    /\ phase = [c \in Clients |-> "init"]
    /\ db = [c \in Clients |-> Null]
    /\ userId = [c \in Clients |-> Null]
    /\ isAuthReady = [c \in Clients |-> FALSE]
    /\ posts = [c \in Clients |-> <<>>]
    /\ allUserIds = [c \in Clients |-> <<>>]
    /\ sub = [c \in Clients |-> FALSE]
    /\ queue = [c \in Clients |-> <<>>]
    /\ content = [c \in Clients |-> <<>>]
    /\ isPosting = [c \in Clients |-> FALSE]
    /\ commentText = [c \in Clients |-> [p \in PostIds |-> <<>>]]
    /\ isExpanded = [c \in Clients |-> [p \in PostIds |-> FALSE]]
    /\ pending = [c \in Clients |-> <<>>]
    /\ events = 0
    /\ likeParity = [p \in PostIds |-> [u \in Users |-> "even"]]
    /\ appliedComments = {}
    /\ rejectedComments = {}
    /\ lastVer = [c \in Clients |-> NoVer]

\* ------------------------------------------------------------ useFirebase
\* The mount effect: Firebase is initialised, db is set and the auth listener
\* registered.  db changed, so the usePosts effect runs again.
InitEffectOk(c) ==
    /\ phase[c] = "init"
    /\ phase' = [phase EXCEPT ![c] = "running"]
    /\ db' = [db EXCEPT ![c] = "db"]
    /\ LET eff == UsePostsEffect("db", userId[c], isAuthReady[c])
       IN  /\ sub' = [sub EXCEPT ![c] = eff.sub]
           /\ queue' = [queue EXCEPT ![c] = eff.queue]
    /\ UNCHANGED <<serverVars, userId, isAuthReady, posts, allUserIds, formVars,
                   pending, events, histVars>>

\* The mount effect when initialisation throws: the catch logs, nothing is set.
InitEffectFail(c) ==
    /\ phase[c] = "init"
    /\ phase' = [phase EXCEPT ![c] = "failed"]
    /\ UNCHANGED <<serverVars, db, userId, isAuthReady, feedVars, formVars,
                   pending, events, histVars>>

\* The identity provider keeps a session's uid: a callback carries no user, or
\* the uid the client already has.  A fresh session of client c1 signs in as
\* "A" (the clients are interchangeable otherwise).
StableIdentity(c, user) ==
    \/ user.isNull
    \/ userId[c] = Null /\ (c = "c1" => user.uid = "A")
    \/ userId[c] = user.uid

\* The onAuthStateChanged callback, the render it causes and the effects after it.
\* With no user the main view's render throws on userId.substring and React
\* unmounts the tree: every effect's cleanup runs and the components' state is
\* gone (the values useFirebase last set are kept to tell what was rendered).
AuthStateChanged(c, user) ==
    /\ phase[c] = "running"
    /\ StableIdentity(c, user)
    /\ LET currentId == CurrentId(user)
           depsChanged == userId[c] # currentId \/ ~isAuthReady[c]
           eff == UsePostsEffect(db[c], currentId, TRUE)
       IN  /\ userId' = [userId EXCEPT ![c] = currentId]
           /\ isAuthReady' = [isAuthReady EXCEPT ![c] = TRUE]
           /\ IF currentId = Null
                THEN /\ phase' = [phase EXCEPT ![c] = "crashed"]
                     /\ sub' = [sub EXCEPT ![c] = FALSE]
                     /\ queue' = [queue EXCEPT ![c] = <<>>]
                     /\ posts' = [posts EXCEPT ![c] = <<>>]
                     /\ allUserIds' = [allUserIds EXCEPT ![c] = <<>>]
                     /\ content' = [content EXCEPT ![c] = <<>>]
                     /\ isPosting' = [isPosting EXCEPT ![c] = FALSE]
                     /\ commentText' = [commentText EXCEPT ![c] = [p \in PostIds |-> <<>>]]
                     /\ isExpanded' = [isExpanded EXCEPT ![c] = [p \in PostIds |-> FALSE]]
                     /\ lastVer' = [lastVer EXCEPT ![c] = NoVer]
                ELSE /\ phase' = phase
                     /\ sub' = [sub EXCEPT ![c] = IF depsChanged THEN eff.sub ELSE @]
                     /\ queue' = [queue EXCEPT ![c] = IF depsChanged THEN eff.queue ELSE @]
                     /\ lastVer' = [lastVer EXCEPT ![c] = IF depsChanged THEN NoVer ELSE @]
                     /\ UNCHANGED <<posts, allUserIds, formVars>>
    /\ UNCHANGED <<serverVars, db, pending, events, writeHist>>

\* ------------------------------------------------------------ usePosts
\* the listener keeping only the newest undelivered result
DeliverNewestOnly(c) ==
    /\ sub[c]
    /\ queue[c] # <<>>
    /\ LET fetchedPosts == FetchedPosts(queue[c][Len(queue[c])])
       IN  /\ posts' = [posts EXCEPT ![c] = fetchedPosts]
           /\ allUserIds' = [allUserIds EXCEPT ![c] = UniqueIds(<<>>, fetchedPosts)]
    /\ queue' = [queue EXCEPT ![c] = <<>>]
    /\ lastVer' = [lastVer EXCEPT ![c] = queue[c][Len(queue[c])].ver]
    /\ UNCHANGED <<serverVars, authVars, sub, formVars, pending, events, writeHist>>

\* The onSnapshot callback for the oldest undelivered result.
Deliver(c) ==
    /\ sub[c]
    /\ queue[c] # <<>>
    /\ LET fetchedPosts == FetchedPosts(Head(queue[c]))
       IN  /\ posts' = [posts EXCEPT ![c] = fetchedPosts]
           /\ allUserIds' = [allUserIds EXCEPT ![c] = UniqueIds(<<>>, fetchedPosts)]
    /\ queue' = [queue EXCEPT ![c] = Tail(@)]
    /\ lastVer' = [lastVer EXCEPT ![c] = Head(queue[c]).ver]
    /\ UNCHANGED <<serverVars, authVars, sub, formVars, pending, events, writeHist>>

\* ------------------------------------------------------------ input events
\* onChange of the NewPost textarea
SetContent(c, text) ==
    /\ Mounted(c)
    /\ events < MaxEvents
    /\ text # content[c]
    /\ content' = [content EXCEPT ![c] = text]
    /\ events' = events + 1
    /\ UNCHANGED <<serverVars, authVars, feedVars, isPosting, commentText, isExpanded,
                   pending, histVars>>

\* onChange of a PostItem's comment input
SetCommentText(c, p, text) ==
    /\ Mounted(c) /\ HasPost(c, p)
    /\ events < MaxEvents
    /\ text # commentText[c][p]
    /\ commentText' = [commentText EXCEPT ![c][p] = text]
    /\ events' = events + 1
    /\ UNCHANGED <<serverVars, authVars, feedVars, content, isPosting, isExpanded,
                   pending, histVars>>

\* the comment button, "View all" and "Show less": setIsExpanded
SetIsExpanded(c, p, value) ==
    /\ Mounted(c) /\ HasPost(c, p)
    /\ events < MaxEvents
    /\ value # isExpanded[c][p]
    /\ isExpanded' = [isExpanded EXCEPT ![c][p] = value]
    /\ events' = events + 1
    /\ UNCHANGED <<serverVars, authVars, feedVars, content, isPosting, commentText,
                   pending, histVars>>

\* ------------------------------------------------------------ handlers
\* NewPost.handleSubmit up to its await
HandleSubmit(c) ==
    /\ Mounted(c)
    /\ IF Trim(content[c]) = <<>> \/ db[c] = Null \/ userId[c] = Null
         THEN UNCHANGED <<isPosting, pending, events>>
         ELSE /\ events < MaxEvents
              /\ events' = events + 1
              /\ isPosting' = [isPosting EXCEPT ![c] = TRUE]
              /\ pending' = [pending EXCEPT ![c] =
                                Append(@, PostWrite(userId[c], Trim(content[c])))]
    /\ UNCHANGED <<serverVars, authVars, feedVars, content, commentText, isExpanded,
                   writeHist, lastVer>>

\* PostItem.handleLike up to its await
HandleLike(c, p) ==
    /\ Mounted(c) /\ HasPost(c, p)
    /\ IF db[c] = Null \/ userId[c] = Null
         THEN UNCHANGED <<pending, events>>
         ELSE /\ events < MaxEvents
              /\ events' = events + 1
              /\ pending' = [pending EXCEPT ![c] =
                    Append(@, LikeWrite(p, userId[c],
                                        NewLikes(PostProp(c, p).likes, userId[c])))]
    /\ UNCHANGED <<serverVars, authVars, feedVars, formVars, writeHist, lastVer>>

\* handleAddComment testing commentText instead of commentText.trim()
HandleAddCommentNoTrimTest(c, p) ==
    /\ Mounted(c) /\ HasPost(c, p)
    /\ IF db[c] = Null \/ userId[c] = Null \/ commentText[c][p] = <<>>
         THEN UNCHANGED <<pending, events>>
         ELSE /\ events < MaxEvents
              /\ events' = events + 1
              /\ pending' = [pending EXCEPT ![c] =
                    Append(@, CommentWrite(p, userId[c], Trim(commentText[c][p]),
                                           Len(PostProp(c, p).comments) + 1))]
    /\ UNCHANGED <<serverVars, authVars, feedVars, formVars, writeHist, lastVer>>

\* PostItem.handleAddComment up to its await
HandleAddComment(c, p) ==
    /\ Mounted(c) /\ HasPost(c, p)
    /\ IF db[c] = Null \/ userId[c] = Null \/ Trim(commentText[c][p]) = <<>>
         THEN UNCHANGED <<pending, events>>
         ELSE /\ events < MaxEvents
              /\ events' = events + 1
              /\ pending' = [pending EXCEPT ![c] =
                    Append(@, CommentWrite(p, userId[c], Trim(commentText[c][p]),
                                           Len(PostProp(c, p).comments) + 1))]
    /\ UNCHANGED <<serverVars, authVars, feedVars, formVars, writeHist, lastVer>>

\* ------------------------------------------------------------ write outcomes
\* likeParity[p][u]: the number of committed like writes of user u on post p,
\* modulo 2, or Failed once one of u's like writes on p was rejected.
Failed == "failed"
Flip(parity) ==
    CASE parity = "even" -> "odd"
      [] parity = "odd" -> "even"
      [] OTHER -> Failed

\* The code after the await when the write succeeded; state setters of an
\* unmounted tree do nothing.
AfterCommit(c, w) ==
    IF phase[c] # "running"
      THEN UNCHANGED formVars
      ELSE CASE w.kind = "post" ->
                   /\ content' = [content EXCEPT ![c] = <<>>]
                   /\ isPosting' = [isPosting EXCEPT ![c] = FALSE]
                   /\ UNCHANGED <<commentText, isExpanded>>
             [] w.kind = "like" -> UNCHANGED formVars
             [] w.kind = "comment" ->
                   /\ commentText' = [commentText EXCEPT ![c][w.post] = <<>>]
                   /\ isExpanded' = [isExpanded EXCEPT ![c][w.post] = TRUE]
                   /\ UNCHANGED <<content, isPosting>>

\* the catch blocks, as if the draft were cleared in a finally block
AfterRejectClearsDraft(c, w) ==
    IF phase[c] # "running"
      THEN UNCHANGED formVars
      ELSE CASE w.kind = "post" ->
                   /\ isPosting' = [isPosting EXCEPT ![c] = FALSE]
                   /\ UNCHANGED <<content, commentText, isExpanded>>
             [] w.kind = "like" -> UNCHANGED formVars
             [] w.kind = "comment" ->
                   /\ commentText' = [commentText EXCEPT ![c][w.post] = <<>>]
                   /\ UNCHANGED <<content, isPosting, isExpanded>>

\* The catch (and finally) blocks when the write was rejected.
AfterReject(c, w) ==
    IF phase[c] # "running"
      THEN UNCHANGED formVars
      ELSE CASE w.kind = "post" ->
                   /\ isPosting' = [isPosting EXCEPT ![c] = FALSE]
                   /\ UNCHANGED <<content, commentText, isExpanded>>
             [] w.kind = "like" -> UNCHANGED formVars
             [] w.kind = "comment" -> UNCHANGED formVars

\* The store commits the oldest write in flight of client c and notifies every
\* posts listener; then the handler resumes after its await.
CommitWrite(c, id) ==
    /\ pending[c] # <<>>
    /\ Head(pending[c]).kind = "post" => DOMAIN store # PostIds
    /\ LET w == Head(pending[c])
           time == clock + 1
           st == Applied(store, w, id, time)
       IN  /\ IF w.kind = "post" THEN id = NewId(store) ELSE id = w.post
           /\ store' = st
           /\ clock' = time
           /\ queue' = [k \in Clients |->
                          IF sub[k] THEN Append(queue[k], QuerySnapshot(st, time))
                                    ELSE queue[k]]
           /\ AfterCommit(c, w)
           /\ likeParity' = IF w.kind = "like"
                              THEN [likeParity EXCEPT ![w.post][w.userId] = Flip(@)]
                              ELSE likeParity
           /\ appliedComments' = IF w.kind = "comment"
                                   THEN appliedComments \cup {Intent(w)}
                                   ELSE appliedComments
    /\ pending' = [pending EXCEPT ![c] = Tail(@)]
    /\ UNCHANGED <<authVars, posts, allUserIds, sub, events, rejectedComments, lastVer>>

\* The store rejects the oldest write in flight of client c.
RejectWrite(c) ==
    /\ pending[c] # <<>>
    /\ LET w == Head(pending[c])
       IN  /\ AfterReject(c, w)
           /\ likeParity' = IF w.kind = "like"
                              THEN [likeParity EXCEPT ![w.post][w.userId] = Failed]
                              ELSE likeParity
           /\ rejectedComments' = IF w.kind = "comment"
                                    THEN rejectedComments \cup {Intent(w)}
                                    ELSE rejectedComments
    /\ pending' = [pending EXCEPT ![c] = Tail(@)]
    /\ UNCHANGED <<serverVars, authVars, feedVars, events, appliedComments, lastVer>>

\* ------------------------------------------------------------ specification
Next ==
    \E c \in Clients :
        \/ InitEffectOk(c)
        \/ InitEffectFail(c)
        \/ \E user \in AuthUsers : AuthStateChanged(c, user)
        \/ Deliver(c)
        \/ \E text \in RawTexts : SetContent(c, text)
        \/ \E p \in PostIds, text \in RawTexts : SetCommentText(c, p, text)
        \/ \E p \in PostIds, value \in BOOLEAN : SetIsExpanded(c, p, value)
        \/ HandleSubmit(c)
        \/ \E p \in PostIds : HandleLike(c, p)
        \/ \E p \in PostIds : HandleAddComment(c, p)
        \/ \E id \in PostIds : CommitWrite(c, id)
        \/ RejectWrite(c)

Spec == Init /\ [][Next]_vars

\* ------------------------------------------------------------ a collection with content
\* The posts collection outlives the clients.  StoredPost(k) is what it holds
\* after earlier sessions created one post (at time 1) and commented on it k
\* times (at times 2..k+1), "B" and "A" taking turns.
StoredComment(i) ==
    NewComment(CommentWrite(NewId(<<>>), IF i % 2 = 1 THEN "B" ELSE "A", <<"a">>, i), i + 1)

StoredPost(k) ==
    [NewDoc(PostWrite("A", <<"a">>), 1) EXCEPT !.comments = [i \in 1..k |-> StoredComment(i)]]

\* the clients start beside a collection that already holds such a post
InitStored ==
    /\ \E k \in 0..MaxStored :
          /\ store = (NewId(<<>>) :> StoredPost(k))
          /\ clock = k + 1
    /\ phase = [c \in Clients |-> "init"]
    /\ db = [c \in Clients |-> Null]
    /\ userId = [c \in Clients |-> Null]
    /\ isAuthReady = [c \in Clients |-> FALSE]
    /\ posts = [c \in Clients |-> <<>>]
    /\ allUserIds = [c \in Clients |-> <<>>]
    /\ sub = [c \in Clients |-> FALSE]
    /\ queue = [c \in Clients |-> <<>>]
    /\ content = [c \in Clients |-> <<>>]
    /\ isPosting = [c \in Clients |-> FALSE]
    /\ commentText = [c \in Clients |-> [p \in PostIds |-> <<>>]]
    /\ isExpanded = [c \in Clients |-> [p \in PostIds |-> FALSE]]
    /\ pending = [c \in Clients |-> <<>>]
    /\ events = 2     \* typing the stored post and submitting it
    /\ likeParity = [p \in PostIds |-> [u \in Users |-> "even"]]
    /\ appliedComments = {}
    /\ rejectedComments = {}
    /\ lastVer = [c \in Clients |-> NoVer]

SpecStored == InitStored /\ [][Next]_vars

\* ------------------------------------------------------------ claim helpers
PendingLike(p, u) ==
    \E c \in Clients : \E k \in 1..Len(pending[c]) :
        pending[c][k].kind = "like" /\ pending[c][k].post = p /\ pending[c][k].userId = u

NoRepeat(arr) == \A i, j \in 1..Len(arr) : i # j => arr[i] # arr[j]

\* client c's oldest write in flight leaves the queue in this step
Resolves(c) == pending[c] # <<>> /\ pending'[c] = Tail(pending[c])
Commits(c) == Resolves(c) /\ clock' = clock + 1
Rejects(c) == Resolves(c) /\ clock' = clock

\* ------------------------------------------------------------ likes
\* C1: once every like-toggle a user made on a post has been committed (none
\* in flight, none rejected), the user is in the post's stored like-set iff
\* the number of those toggles is odd.
C1_ToggleParity ==
    \A p \in DOMAIN store : \A u \in Users :
        (likeParity[p][u] # Failed /\ ~PendingLike(p, u))
            => (Includes(store[p].likes, u) <=> likeParity[p][u] = "odd")

\* C6: no identity appears twice in a stored like-set, in a like write in
\* flight or in a client's copy of a post.
C6_NoDuplicateLikes ==
    /\ \A p \in DOMAIN store : NoRepeat(store[p].likes)
    /\ \A c \in Clients :
        /\ \A k \in 1..Len(pending[c]) : NoRepeat(pending[c][k].likes)
        /\ \A k \in 1..Len(posts[c]) : NoRepeat(posts[c][k].likes)

\* two users like one post, and one of them has liked, unliked and liked
\* again or the like-set has otherwise been rewritten from a copy holding both
C6_Witness ==
    \E p \in DOMAIN store :
        /\ Len(store[p].likes) = 2
        /\ \E c \in Clients : HasPost(c, p) /\ Len(PostProp(c, p).likes) = 2

\* C10: committing a like write of user A leaves every other user's
\* membership in the post's stored like-set as it was.
C10_OnlyOwnMembership ==
    [][\A c \in Clients :
        (Commits(c) /\ Head(pending[c]).kind = "like") =>
            LET w == Head(pending[c])
            IN  \A b \in Users \ {w.userId} :
                    Includes(store'[w.post].likes, b) <=> Includes(store[w.post].likes, b)]_vars

\* ------------------------------------------------------------ comments
\* t has no whitespace at either end
NoEdgeSpace(t) == t = <<>> \/ (t[1] # Space /\ t[Len(t)] # Space)

\* t is raw without its leading and trailing whitespace
IsTrimOf(t, raw) ==
    /\ NoEdgeSpace(t)
    /\ \E i \in 0..Len(raw) :
        /\ i + Len(t) <= Len(raw)
        /\ \A k \in 1..i : raw[k] = Space
        /\ \A k \in 1..Len(t) : raw[i + k] = t[k]
        /\ \A k \in (i + Len(t) + 1)..Len(raw) : raw[k] = Space

Blank(raw) == IsTrimOf(<<>>, raw)

\* the step appends a write of this kind to client c's writes in flight
Issues(c, kind) ==
    /\ Len(pending'[c]) = Len(pending[c]) + 1
    /\ pending'[c][Len(pending'[c])].kind = kind

Issued(c) == pending'[c][Len(pending'[c])]

\* C2: a post stores one comment per distinct comment applied to it: applying
\* the same comment (same author, text and position) again adds nothing.
C2_CommentDedup ==
    \A p \in DOMAIN store :
        Len(store[p].comments) = Cardinality({i \in appliedComments : i.post = p})

\* C4: handleAddComment with a text that is empty after trimming changes
\* nothing; a comment write is only issued for a non-blank text, leaves the
\* store, commentText and isExpanded as they are, and carries the trimmed
\* text, which is the text the committed comment stores.
C4_State ==
    /\ \A c \in Clients : \A k \in 1..Len(pending[c]) :
          pending[c][k].kind = "comment" =>
              pending[c][k].text # <<>> /\ NoEdgeSpace(pending[c][k].text)
    /\ \A p \in DOMAIN store : \A k \in 1..Len(store[p].comments) :
          store[p].comments[k].text # <<>> /\ NoEdgeSpace(store[p].comments[k].text)

C4_Step ==
    \A c \in Clients :
        /\ \A p \in PostIds :
              (HandleAddComment(c, p) /\ Blank(commentText[c][p])) => UNCHANGED vars
        /\ Issues(c, "comment") =>
              /\ ~Blank(commentText[c][Issued(c).post])
              /\ IsTrimOf(Issued(c).text, commentText[c][Issued(c).post])
              /\ UNCHANGED <<store, commentText, isExpanded>>
        /\ (Commits(c) /\ Head(pending[c]).kind = "comment") =>
              LET w == Head(pending[c])
                  after == store'[w.post].comments
              IN  /\ Len(after) = Len(store[w.post].comments) + 1
                  /\ after[Len(after)].text = w.text
                  /\ SubSeq(after, 1, Len(after) - 1) = store[w.post].comments
                  /\ store'[w.post].likes = store[w.post].likes

C4_BlankCommentIgnored == [][C4_State' /\ C4_Step]_vars

\* a whitespace-only draft sits in a mounted PostItem whose post already
\* stores a comment that was typed with surrounding whitespace
C4_Witness ==
    \E c \in Clients : \E p \in DOMAIN store :
        /\ Mounted(c) /\ HasPost(c, p)
        /\ commentText[c][p] = <<Space>>
        /\ \E k \in 1..Len(store[p].comments) : store[p].comments[k].text = <<"a">>

\* C7: a rejected comment write changes neither the store, nor any client's
\* posts, nor the draft or the expansion; issuing it changed no posts either;
\* outside input events the draft and the expansion of a mounted PostItem
\* change only when its own comment write commits, to '' and true.
C7_Step ==
    \A c \in Clients :
        /\ (Rejects(c) /\ Head(pending[c]).kind = "comment") =>
              UNCHANGED <<store, posts, commentText, isExpanded>>
        /\ Issues(c, "comment") => UNCHANGED <<store, posts>>
        /\ \A p \in PostIds :
              (/\ events' = events
               /\ phase'[c] = "running"
               /\ <<commentText'[c][p], isExpanded'[c][p]>> # <<commentText[c][p], isExpanded[c][p]>>)
              => /\ Commits(c)
                 /\ Head(pending[c]).kind = "comment"
                 /\ Head(pending[c]).post = p
                 /\ commentText'[c][p] = <<>>
                 /\ isExpanded'[c][p]

C7_RejectKeepsDraft == [][C7_Step]_vars

\* a comment of client c was rejected: nothing of it is stored or in flight,
\* and the draft is still in the input, collapsed as before
C7_Witness ==
    \E c \in Clients : \E p \in DOMAIN store :
        /\ Mounted(c) /\ HasPost(c, p)
        /\ pending[c] = <<>>
        /\ \E i \in rejectedComments : i.post = p /\ i.userId = userId[c]
        /\ appliedComments = {}
        /\ store[p].comments = <<>>
        /\ PostProp(c, p).comments = <<>>
        /\ ~Blank(commentText[c][p])
        /\ ~isExpanded[c][p]

\* ------------------------------------------------------------ identity
\* C3: while a client has no identity (or no db) it has no posts listener and
\* issues no write; a write is issued with the client's identity of that
\* moment, so every write in flight and every stored post and comment
\* carries a user id.
C3_State ==
    /\ \A c \in Clients :
        /\ sub[c] => (db[c] # Null /\ userId[c] # Null /\ isAuthReady[c])
        /\ \A k \in 1..Len(pending[c]) : pending[c][k].userId \in Users
    /\ \A p \in DOMAIN store :
        /\ store[p].userId \in Users
        /\ \A k \in 1..Len(store[p].comments) : store[p].comments[k].userId \in Users

C3_Step ==
    \A c \in Clients :
        /\ (db[c] = Null \/ userId[c] = Null) => Len(pending'[c]) <= Len(pending[c])
        /\ Len(pending'[c]) > Len(pending[c]) => Issued(c).userId = userId[c]
        /\ (Commits(c) /\ Head(pending[c]).kind = "post") =>
              \E id \in DOMAIN store' \ DOMAIN store :
                  store'[id].userId = Head(pending[c]).userId
        /\ (Commits(c) /\ Head(pending[c]).kind = "comment") =>
              LET after == store'[Head(pending[c]).post].comments
              IN  after[Len(after)].userId = Head(pending[c]).userId

C3_IdentityGate == [][C3_State' /\ C3_Step]_vars

\* a running client still without identity, beside a store that already
\* holds an authored post with an authored comment
C3_Witness ==
    \E c \in Clients :
        /\ phase[c] = "running" /\ db[c] # Null /\ userId[c] = Null
        /\ \E p \in DOMAIN store : store[p].comments # <<>>

\* C11: whenever the main view is rendered (isAuthReady is true), userId is a
\* non-null identity string: no sequence of auth-state callbacks reaches
\* isAuthReady = true with userId = null.
C11_ReadyHasIdentity ==
    \A c \in Clients : isAuthReady[c] => userId[c] \in Users


\* ------------------------------------------------------------ posts
\* C5: handleSubmit with a blank body changes nothing; a post write is issued
\* only for a non-blank body and carries the author and the trimmed body; its
\* commit adds exactly one document, with that author and body, no likes and
\* no comments, and leaves the other documents alone; nothing else adds one.
C5_State ==
    \A p \in DOMAIN store : store[p].content # <<>> /\ NoEdgeSpace(store[p].content)

C5_Step ==
    /\ \A c \in Clients :
        /\ (HandleSubmit(c) /\ Blank(content[c])) => UNCHANGED vars
        /\ Issues(c, "post") =>
              /\ ~Blank(content[c])
              /\ IsTrimOf(Issued(c).text, content[c])
              /\ Issued(c).userId = userId[c]
              /\ store' = store
        /\ (Commits(c) /\ Head(pending[c]).kind = "post") =>
              \E id \in PostIds \ DOMAIN store :
                  /\ DOMAIN store' = DOMAIN store \cup {id}
                  /\ store'[id].userId = Head(pending[c]).userId
                  /\ store'[id].content = Head(pending[c]).text
                  /\ store'[id].likes = <<>>
                  /\ store'[id].comments = <<>>
                  /\ \A q \in DOMAIN store : store'[q] = store[q]
    /\ DOMAIN store' # DOMAIN store =>
          \E c \in Clients : Commits(c) /\ Head(pending[c]).kind = "post"

C5_CreatePost == [][C5_State' /\ C5_Step]_vars

\* one post, created from a body typed with surrounding whitespace, while a
\* whitespace-only body sits in a mounted NewPost form
C5_Witness ==
    /\ \E p \in DOMAIN store :
          /\ DOMAIN store = {p}
          /\ store[p].content = <<"a">>
          /\ store[p].likes = <<>> /\ store[p].comments = <<>>
    /\ \E c \in Clients : Mounted(c) /\ content[c] = <<Space>>

\* ------------------------------------------------------------ feed
\* the posts a client shows are strictly newest first
NewestFirst(list) ==
    \A i, j \in 1..Len(list) : i < j => list[i].timestamp > list[j].timestamp

\* C8: a listener's first result is the feed at the moment it subscribed.
\* Undelivered results are one per committed write, in commit order, the
\* last one being the store's present feed; each delivery hands over the
\* oldest undelivered result, whole, so a listener with nothing undelivered
\* shows the store's feed.  A client without listener keeps its posts.
C8_State ==
    \A c \in Clients :
        sub[c] =>
            /\ \A k \in 1..(Len(queue[c]) - 1) : queue[c][k + 1].ver = queue[c][k].ver + 1
            /\ queue[c] # <<>> =>
                  /\ queue[c][Len(queue[c])].ver = clock
                  /\ queue[c][Len(queue[c])].docs = QueryDocs(store)
            /\ lastVer[c] = NoVer => queue[c] # <<>>
            /\ (lastVer[c] # NoVer /\ queue[c] # <<>>) => Head(queue[c]).ver = lastVer[c] + 1
            /\ queue[c] = <<>> =>
                  /\ lastVer[c] = clock
                  /\ Len(posts[c]) = Cardinality(DOMAIN store)
                  /\ \A k \in 1..Len(posts[c]) :
                        LET post == posts[c][k]
                        IN  /\ post.id \in DOMAIN store
                            /\ store[post.id] =
                                  [userId |-> post.userId, content |-> post.content,
                                   timestamp |-> post.timestamp, likes |-> post.likes,
                                   comments |-> post.comments]

C8_Step ==
    \A c \in Clients :
        /\ (~sub[c] /\ sub'[c]) =>
              /\ Len(queue'[c]) = 1
              /\ queue'[c][1].ver = clock /\ queue'[c][1].docs = QueryDocs(store)
              /\ lastVer'[c] = NoVer
        /\ (sub[c] /\ sub'[c]) =>
              \/ queue'[c] = queue[c] /\ posts'[c] = posts[c] /\ lastVer'[c] = lastVer[c]
              \/ /\ queue[c] # <<>> /\ queue'[c] = Tail(queue[c])
                 /\ lastVer'[c] = Head(queue[c]).ver
                 /\ Len(posts'[c]) = Len(Head(queue[c]).docs)
                 /\ \A k \in 1..Len(posts'[c]) :
                       /\ posts'[c][k].id = Head(queue[c]).docs[k].id
                       /\ posts'[c][k].likes = Head(queue[c]).docs[k].data.likes
                       /\ posts'[c][k].comments = Head(queue[c]).docs[k].data.comments
              \/ /\ clock' = clock + 1
                 /\ Len(queue'[c]) = Len(queue[c]) + 1
                 /\ SubSeq(queue'[c], 1, Len(queue[c])) = queue[c]
                 /\ posts'[c] = posts[c] /\ lastVer'[c] = lastVer[c]
        /\ (~sub[c] /\ ~sub'[c]) => posts'[c] = posts[c] /\ queue'[c] = <<>>

C9_State ==
    \A c \in Clients :
        /\ NewestFirst(posts[c])
        /\ \A k \in 1..Len(queue[c]) :
              \A i, j \in 1..Len(queue[c][k].docs) :
                  i < j => queue[c][k].docs[i].data.timestamp > queue[c][k].docs[j].data.timestamp

C9_Step ==
    \A p \in DOMAIN store :
        /\ p \in DOMAIN store'
        /\ store'[p].timestamp = store[p].timestamp
        /\ store'[p].userId = store[p].userId
        /\ store'[p].content = store[p].content

C9_NewestFirst == [][C9_State' /\ C9_Step]_vars

\* a client shows two posts, the newer first although its id is the lower,
\* and the older post was liked after the newer one was created
C9_Witness ==
    \E c \in Clients :
        /\ Len(posts[c]) = 2
        /\ posts[c][1].id < posts[c][2].id
        /\ posts[c][1].timestamp = 2 /\ posts[c][2].timestamp = 1
        /\ posts[c][2].likes # <<>>
        /\ lastVer[c] = 3

\* ------------------------------------------------------------ comment display
\* d holds the elements of arr, each as often as arr does
SameElements(d, arr) ==
    /\ Len(d) = Len(arr)
    /\ \A e \in {arr[i] : i \in 1..Len(arr)} \cup {d[i] : i \in 1..Len(d)} :
          Cardinality({i \in 1..Len(d) : d[i] = e}) =
              Cardinality({i \in 1..Len(arr) : arr[i] = e})

OldestFirst(d) == \A i, j \in 1..Len(d) : i < j => d[i].timestamp <= d[j].timestamp

\* C12: every render of a PostItem (the first after the main view mounts,
\* and one whenever the client's posts or the item's expansion change) shows
\* this: the displayed comments are the post's comments oldest first by
\* timestamp; collapsed, the visible comments are the last min(2, n) of
\* them, expanded all n; "View all" is offered iff the item is collapsed and
\* n > 2.  An input event that changes the expansion changes neither the
\* stored comments nor any client's copy of them.
C12_Render(c, p) ==
    (Mounted(c) /\ HasPost(c, p)) =>
        \A comments \in {PostProp(c, p).comments} :
        \A d \in {DisplayedComments(c, p)} :
        \A v \in {VisibleComments(c, p)} :
            LET n == Len(comments)
                m == IF n < 2 THEN n ELSE 2
            IN  /\ SameElements(d, comments)
                /\ OldestFirst(d)
                /\ isExpanded[c][p] => v = d
                /\ ~isExpanded[c][p] =>
                      /\ Len(v) = m
                      /\ \A k \in 1..m : v[k] = d[n - m + k]
                /\ ViewAllOffered(c, p) <=> (~isExpanded[c][p] /\ n > 2)

Rerenders(c, p) ==
    \/ ~Mounted(c)
    \/ posts'[c] # posts[c]
    \/ isExpanded'[c][p] # isExpanded[c][p]

C12_Step ==
    /\ \A c \in Clients : \A p \in PostIds : Rerenders(c, p) => C12_Render(c, p)'
    /\ (isExpanded' # isExpanded /\ events' = events + 1) =>
          /\ store' = store
          /\ posts' = posts

C12_CommentDisplay == [][C12_Step]_vars

\* one client shows a post of three comments collapsed, so its two newest
\* with "View all" offered, while the other client, whose user expanded the
\* item, shows all three; no comment was written in between
C12_Witness ==
    \E c, d \in Clients : \E p \in DOMAIN store :
        /\ Mounted(c) /\ HasPost(c, p) /\ Mounted(d) /\ HasPost(d, p)
        /\ Len(PostProp(c, p).comments) = 3 /\ Len(PostProp(d, p).comments) = 3
        /\ ~isExpanded[c][p] /\ ViewAllOffered(c, p)
        /\ VisibleComments(c, p) = SubSeq(store[p].comments, 2, 3)
        /\ isExpanded[d][p] /\ ShowLessOffered(d, p)
        /\ VisibleComments(d, p) = store[p].comments
        /\ events = 3 /\ clock = 4

====
